---- MODULE Spec2Model ----
(***************************************************************************)
(* A model of notebooks/ml_pipeline.ipynb: the top-to-bottom run of the    *)
(* notebook against the managed services (Spec), and the serving path      *)
(* lambda_handler -> invoke_endpoint -> input_fn/predict_fn/output_fn      *)
(* (SpecServing).                                                          *)
(*                                                                         *)
(* Strings that the code builds, splits or joins (paths, S3 URIs, request  *)
(* bodies) are sequences of tokens.  In a path or URI every "/" is a token *)
(* of its own and a name between two "/" is one token; in a request body   *)
(* or a JSON text every character is a token.                              *)
(***************************************************************************)
EXTENDS Integers, Sequences, FiniteSets, TLC

VARIABLES
    pc,                     \* the notebook cell the run is at
    raised,                 \* the exception that stopped the run, or "none"
    raw_data_bucket,        \* os.getenv("RAW_DATA_PATH")
    processed_data_bucket,  \* os.getenv("PREPROCESSING_OUTPUT_PATH")
    penguins,               \* load_penguins(): the raw rows
    s3,                     \* object storage: URI -> content
    cwd,                    \* files written by %%writefile
    ns,                     \* the notebook's namespace: bound name -> value
    jobs,                   \* sklearn_processor.jobs
    training_jobs,          \* the training jobs of the sklearn estimator
    log,                    \* history: the stage events, in order
    spc,                    \* serving path: position
    event,                  \* serving path: the event given to lambda_handler
    request,                \* serving path: the invoke_endpoint request
    response,               \* serving path: what the endpoint answered
    label                   \* serving path: what lambda_handler returned or raised

nbvars == <<pc, raised, raw_data_bucket, processed_data_bucket, penguins, s3,
            cwd, ns, jobs, training_jobs, log>>
svvars == <<spc, event, request, response, label>>
vars == <<pc, raised, raw_data_bucket, processed_data_bucket, penguins, s3,
          cwd, ns, jobs, training_jobs, log, spc, event, request, response,
          label>>

(***************************************************************************)
(* Bounds of the model.                                                    *)
(***************************************************************************)
MaxRows == 4
MaxPayloadRows == 2
MaxRowLen == 2

(***************************************************************************)
(* Strings and paths.                                                      *)
(***************************************************************************)
RECURSIVE Abs(_)
\* "/a/b/c" from <<"a", "b", "c">>
Abs(names) ==
    IF names = <<>> THEN <<>>
    ELSE <<"/", names[1]>> \o Abs(Tail(names))

S3Uri(bucket, names) == <<"s3:", "/", "/", bucket>> \o Abs(names)

EndsWithSlash(p) == p # <<>> /\ p[Len(p)] = "/"

\* os.path.join(a, b) on POSIX
os_path_join(a, b) ==
    IF b # <<>> /\ b[1] = "/" THEN b
    ELSE IF a = <<>> \/ EndsWithSlash(a) THEN a \o b
    ELSE a \o <<"/">> \o b

IsPrefix(p, s) == Len(p) <= Len(s) /\ SubSeq(s, 1, Len(p)) = p

RECURSIVE StripLeadingSlashes(_)
StripLeadingSlashes(p) ==
    IF p # <<>> /\ p[1] = "/" THEN StripLeadingSlashes(Tail(p)) ELSE p

Basename(p) == <<p[Len(p)]>>

(***************************************************************************)
(* Object storage and the managed services' file staging.                  *)
(***************************************************************************)
Put(store, uri, content) ==
    [u \in (DOMAIN store) \cup {uri} |-> IF u = uri THEN content ELSE store[u]]

\* The objects an S3Prefix input with this source selects.
Selected(store, source) == {o \in DOMAIN store : IsPrefix(source, o)}

\* Where the service puts object o of an input staged at the local directory.
StagedPath(source, destination, o) ==
    IF o = source THEN os_path_join(destination, Basename(o))
    ELSE os_path_join(destination,
                      StripLeadingSlashes(SubSeq(o, Len(source) + 1, Len(o))))

\* The container's file system after the inputs are staged: path -> content.
Stage(store, inputs) ==
    LET pairs == {<<StagedPath(inputs[i].source, inputs[i].destination, o), o>> :
                    i \in DOMAIN inputs, o \in DOMAIN store}
        staged == {pr \in pairs :
                    \E i \in DOMAIN inputs :
                        /\ pr[2] \in Selected(store, inputs[i].source)
                        /\ pr[1] = StagedPath(inputs[i].source,
                                              inputs[i].destination, pr[2])}
    IN [p \in {pr[1] : pr \in staged} |->
            store[(CHOOSE pr \in staged : pr[1] = p)[2]]]

\* The objects the service uploads for one output: the files under the
\* output's local source directory, under the output's destination.
Upload(store, fs, output) ==
    LET under == {p \in DOMAIN fs : IsPrefix(output.source \o <<"/">>, p)}
        target(p) == os_path_join(output.destination,
                        SubSeq(p, Len(output.source) + 2, Len(p)))
    IN [u \in (DOMAIN store) \cup {target(p) : p \in under} |->
            IF \E p \in under : target(p) = u
            THEN fs[CHOOSE p \in under : target(p) = u]
            ELSE store[u]]

RECURSIVE UploadAll(_, _, _)
UploadAll(store, fs, outputs) ==
    IF outputs = <<>> THEN store
    ELSE UploadAll(Upload(store, fs, Head(outputs)), fs, Tail(outputs))

\* Files written by a script on top of the staged ones.
Overlay(fs, written) ==
    [p \in (DOMAIN fs) \cup (DOMAIN written) |->
        IF p \in DOMAIN written THEN written[p] ELSE fs[p]]

NoFiles == [p \in {} |-> <<>>]

default_bucket == "sagemaker-default-bucket"

(***************************************************************************)
(* Python values and their text.  A number is its type and its decimal     *)
(* text in shortest form: a sign, the digits of the integer part without   *)
(* leading zeros and the digits of the fraction without trailing zeros.    *)
(* An int is exact at every length.  A float is identified with its        *)
(* shortest decimal text, which str() writes and float() reads back to the *)
(* same float; this covers the floats str() writes in positional notation  *)
(* (1e-4 <= |x| < 1e16).  A whole number above 2^53 is a float only when   *)
(* 53 bits hold it: float() rounds the others to the nearest float, ties   *)
(* to the even mantissa.  Whole numbers beyond the largest float (309      *)
(* digits) are outside the values considered here.                         *)
(***************************************************************************)
Digits == <<"0", "1", "2", "3", "4", "5", "6", "7", "8", "9">>

IsDigit(c) == \E d \in DOMAIN Digits : Digits[d] = c

DigitValue(c) == (CHOOSE d \in DOMAIN Digits : Digits[d] = c) - 1

Decimal(t, neg, int, frac) == [t |-> t, neg |-> neg, int |-> int, frac |-> frac]

Zero == Decimal("int", FALSE, <<"0">>, <<>>)

RECURSIVE StripLeadingZeros(_)
StripLeadingZeros(s) ==
    IF s = <<>> THEN <<"0">>
    ELSE IF Len(s) > 1 /\ s[1] = "0" THEN StripLeadingZeros(Tail(s))
    ELSE s

RECURSIVE StripTrailingZeros(_)
StripTrailingZeros(s) ==
    IF s # <<>> /\ s[Len(s)] = "0" THEN StripTrailingZeros(SubSeq(s, 1, Len(s) - 1))
    ELSE s

\* a < b for two whole numbers without leading zeros
Less(a, b) ==
    \/ Len(a) < Len(b)
    \/ /\ Len(a) = Len(b)
       /\ \E i \in DOMAIN a :
             /\ DigitValue(a[i]) < DigitValue(b[i])
             /\ \A j \in 1..(i - 1) : a[j] = b[j]

RECURSIVE HalveFrom(_, _)
HalveFrom(s, carry) ==
    IF s = <<>> THEN <<>>
    ELSE LET v == 10 * carry + DigitValue(s[1])
         IN <<Digits[(v \div 2) + 1]>> \o HalveFrom(Tail(s), v % 2)

\* n \div 2 and n % 2 of a whole number
Halve(n) == [q |-> StripLeadingZeros(HalveFrom(n, 0)),
             r |-> DigitValue(n[Len(n)]) % 2]

RECURSIVE TimesTwoPlus(_, _)
\* 2 * n + carry
TimesTwoPlus(n, carry) ==
    IF n = <<>> THEN (IF carry = 0 THEN <<>> ELSE <<Digits[carry + 1]>>)
    ELSE LET v == 2 * DigitValue(n[Len(n)]) + carry
         IN TimesTwoPlus(SubSeq(n, 1, Len(n) - 1), v \div 10)
                \o <<Digits[(v % 10) + 1]>>

RECURSIVE PlusOne(_)
PlusOne(n) ==
    IF n = <<>> THEN <<"1">>
    ELSE IF n[Len(n)] = "9" THEN PlusOne(SubSeq(n, 1, Len(n) - 1)) \o <<"0">>
    ELSE SubSeq(n, 1, Len(n) - 1) \o <<Digits[DigitValue(n[Len(n)]) + 2]>>

RECURSIVE ShiftLeft(_, _)
\* n * 2^k
ShiftLeft(n, k) ==
    IF k = 0 THEN n ELSE ShiftLeft(StripLeadingZeros(TimesTwoPlus(n, 0)), k - 1)

\* 2^53: a float64 has a mantissa of 53 bits
TwoPow53 == <<"9", "0", "0", "7", "1", "9", "9", "2",
              "5", "4", "7", "4", "0", "9", "9", "2">>

RECURSIVE Mantissa(_, _, _, _)
\* The leading 53 bits q of a whole number, the number k of bits dropped,
\* the first dropped bit and whether a later dropped bit is set.
Mantissa(q, half, sticky, k) ==
    IF Less(q, TwoPow53) THEN [q |-> q, half |-> half, sticky |-> sticky, k |-> k]
    ELSE LET h == Halve(q)
         IN Mantissa(h.q, h.r, sticky \/ half = 1, k + 1)

\* The float nearest to a whole number, ties to the even mantissa
NearestFloat(n) ==
    LET m  == Mantissa(n, 0, FALSE, 0)
        up == m.half = 1 /\ (m.sticky \/ Halve(m.q).r = 1)
    IN ShiftLeft(IF up THEN PlusOne(m.q) ELSE m.q, m.k)

\* str(n) for an int or a float n
PyStr(x) ==
    (IF x.neg THEN <<"-">> ELSE <<>>)
    \o x.int
    \o (IF x.t = "int" THEN <<>>
        ELSE <<".">> \o (IF x.frac = <<>> THEN <<"0">> ELSE x.frac))

RECURSIVE StripSpaces(_)
\* str.strip() of blanks
StripSpaces(s) ==
    IF s # <<>> /\ s[1] = " " THEN StripSpaces(Tail(s))
    ELSE IF s # <<>> /\ s[Len(s)] = " " THEN StripSpaces(SubSeq(s, 1, Len(s) - 1))
    ELSE s

Indices(s, c) == {i \in DOMAIN s : s[i] = c}

\* The decimal texts float() and json.loads() read: [-]digits[.digits]
Unsigned(s) == IF s # <<>> /\ s[1] = "-" THEN Tail(s) ELSE s

IsDecimal(s) ==
    LET u == Unsigned(s)
    IN /\ \A i \in DOMAIN u : IsDigit(u[i]) \/ u[i] = "."
       /\ Cardinality(Indices(u, ".")) <= 1
       /\ \E i \in DOMAIN u : IsDigit(u[i])

\* The number a decimal text denotes, read exactly
DecimalValue(s) ==
    LET u    == Unsigned(s)
        dots == Indices(u, ".")
        dot  == IF dots = {} THEN Len(u) + 1 ELSE CHOOSE i \in dots : TRUE
    IN Decimal("float", s[1] = "-",
               StripLeadingZeros(SubSeq(u, 1, dot - 1)),
               StripTrailingZeros(SubSeq(u, dot + 1, Len(u))))

\* The float of a number read exactly
ToFloat(v) ==
    IF v.frac = <<>> THEN Decimal("float", v.neg, NearestFloat(v.int), <<>>)
    ELSE Decimal("float", v.neg, v.int, v.frac)

\* float(text): the value, or ValueError
float(text) ==
    LET s == StripSpaces(text)
    IN IF IsDecimal(s) THEN [raised |-> "none", value |-> ToFloat(DecimalValue(s))]
       ELSE [raised |-> "ValueError", value |-> Zero]

(***************************************************************************)
(* str.split and str.join.                                                 *)
(***************************************************************************)
RECURSIVE split(_, _)
\* s.split(sep) for a one-character sep
split(s, sep) ==
    IF Indices(s, sep) = {} THEN <<s>>
    ELSE LET i == CHOOSE k \in Indices(s, sep) : \A j \in Indices(s, sep) : k <= j
         IN <<SubSeq(s, 1, i - 1)>> \o split(SubSeq(s, i + 1, Len(s)), sep)

RECURSIVE join(_, _)
\* sep.join(parts)
join(sep, parts) ==
    IF parts = <<>> THEN <<>>
    ELSE IF Len(parts) = 1 THEN parts[1]
    ELSE parts[1] \o sep \o join(sep, Tail(parts))

\* s[:-1]
DropLast(s) == SubSeq(s, 1, Len(s) - 1)

(***************************************************************************)
(* json.loads of a list of rows of numbers, and the JSON text a client     *)
(* sends.                                                                  *)
(***************************************************************************)
\* A JSON number: with a "." it is a float, without it an int.
JsonNumber(text) ==
    LET v == DecimalValue(text)
    IN IF Indices(text, ".") = {}
       THEN Decimal("int", v.neg /\ v.int # <<"0">>, v.int, <<>>)
       ELSE ToFloat(v)

RECURSIVE SplitTop(_, _, _, _)
\* The elements of the inside of a JSON array: split at the commas that are
\* not inside a nested array.
SplitTop(s, depth, cur, acc) ==
    IF s = <<>> THEN (IF cur = <<>> /\ acc = <<>> THEN <<>> ELSE Append(acc, cur))
    ELSE LET c == s[1]
         IN IF c = "," /\ depth = 0
            THEN SplitTop(Tail(s), depth, <<>>, Append(acc, cur))
            ELSE SplitTop(Tail(s),
                          IF c = "[" THEN depth + 1
                          ELSE IF c = "]" THEN depth - 1 ELSE depth,
                          Append(cur, c), acc)

Inside(text) == LET s == StripSpaces(text) IN SubSeq(s, 2, Len(s) - 1)

json_loads(text) ==
    LET rows == SplitTop(Inside(text), 0, <<>>, <<>>)
    IN [i \in DOMAIN rows |->
          LET items == SplitTop(Inside(rows[i]), 0, <<>>, <<>>)
          IN [j \in DOMAIN items |-> JsonNumber(StripSpaces(items[j]))]]

\* The text of a list of rows of number literals, as a client writes it.
JsonText(rows) ==
    <<"[">> \o join(<<",", " ">>,
                    [i \in DOMAIN rows |->
                        <<"[">> \o join(<<",", " ">>, rows[i]) \o <<"]">>])
            \o <<"]">>

(***************************************************************************)
(* train_and_deploy.py: the serving functions.                             *)
(***************************************************************************)
\* np.array(samples): rows of one length make a 2-d float array, rows of
\* different lengths an array of lists.
np_array(samples) ==
    [dtype |-> IF \A i, j \in DOMAIN samples : Len(samples[i]) = Len(samples[j])
               THEN "float64" ELSE "object",
     rows  |-> samples]

NoArray == np_array(<<>>)

\* Variant: the rows are split at line ends.
input_fn_lines(request_body, content_type) ==
    IF content_type = "text/csv"
    THEN LET rs     == split(request_body, "\n")
             parsed == [i \in DOMAIN rs |->
                          LET cells == split(rs[i], ",")
                          IN [j \in DOMAIN cells |-> float(cells[j])]]
         IN IF \E i \in DOMAIN parsed : \E j \in DOMAIN parsed[i] :
                   parsed[i][j].raised # "none"
            THEN [raised |-> "ValueError", returned |-> FALSE, value |-> NoArray]
            ELSE [raised |-> "none", returned |-> TRUE,
                  value |-> np_array([i \in DOMAIN parsed |->
                               [j \in DOMAIN parsed[i] |-> parsed[i][j].value]])]
    ELSE [raised |-> "ValueError", returned |-> FALSE, value |-> NoArray]

\* Variant: every content type that starts with text/csv is taken as csv.
input_fn_lenient(request_body, content_type) ==
    IF content_type \in {"text/csv", "text/csv; charset=utf-8"}
    THEN LET rs     == split(request_body, "|")
             parsed == [i \in DOMAIN rs |->
                          LET cells == split(rs[i], ",")
                          IN [j \in DOMAIN cells |-> float(cells[j])]]
         IN IF \E i \in DOMAIN parsed : \E j \in DOMAIN parsed[i] :
                   parsed[i][j].raised # "none"
            THEN [raised |-> "ValueError", returned |-> FALSE, value |-> NoArray]
            ELSE [raised |-> "none", returned |-> TRUE,
                  value |-> np_array([i \in DOMAIN parsed |->
                               [j \in DOMAIN parsed[i] |-> parsed[i][j].value]])]
    ELSE [raised |-> "ValueError", returned |-> FALSE, value |-> NoArray]

input_fn(request_body, content_type) ==
    IF content_type = "text/csv"
    THEN LET rs     == split(request_body, "|")
             parsed == [i \in DOMAIN rs |->
                          LET cells == split(rs[i], ",")
                          IN [j \in DOMAIN cells |-> float(cells[j])]]
         IN IF \E i \in DOMAIN parsed : \E j \in DOMAIN parsed[i] :
                   parsed[i][j].raised # "none"
            THEN [raised |-> "ValueError", returned |-> FALSE, value |-> NoArray]
            ELSE [raised |-> "none", returned |-> TRUE,
                  value |-> np_array([i \in DOMAIN parsed |->
                               [j \in DOMAIN parsed[i] |-> parsed[i][j].value]])]
    ELSE [raised |-> "ValueError", returned |-> FALSE, value |-> NoArray]

Labels == {"male", "female"}

\* model.predict(input_data): one label per row when the array has the
\* model's shape, ValueError when it has not.  Which rows the fitted model
\* accepts and what it answers is not decided here: the outcomes are all of
\* them.
predict_fn_outcomes(input_data) ==
    {[raised |-> "ValueError", prediction |-> <<>>]}
    \cup (IF input_data.dtype = "float64"
             /\ input_data.rows # <<>> /\ input_data.rows[1] # <<>>
          THEN {[raised |-> "none", prediction |-> p] :
                    p \in [DOMAIN input_data.rows -> Labels]}
          ELSE {})

\* str(prediction) of an array of labels: "['male' 'female']"; a label is
\* one token.
output_fn(prediction, content_type) ==
    <<"[">> \o join(<<" ">>, [i \in DOMAIN prediction |->
                                <<"'", prediction[i], "'">>])
            \o <<"]">>

(***************************************************************************)
(* serving_lambda.py                                                       *)
(***************************************************************************)
RECURSIVE FormatSamples(_, _)
\* for sample in payload: body += ",".join([str(n) for n in sample]) + "|"
FormatSamples(body, payload) ==
    IF payload = <<>> THEN body
    ELSE FormatSamples(
            body \o join(<<",">>, [j \in DOMAIN payload[1] |-> PyStr(payload[1][j])])
                 \o <<"|">>,
            Tail(payload))

\* Variant: the trailing separator is kept.
lambda_body_untrimmed(payload) == FormatSamples(<<>>, payload)

lambda_body(payload) == DropLast(FormatSamples(<<>>, payload))

RECURSIVE strip(_, _)
\* s.strip(chars)
strip(s, chars) ==
    IF s # <<>> /\ s[1] \in chars THEN strip(Tail(s), chars)
    ELSE IF s # <<>> /\ s[Len(s)] \in chars THEN strip(DropLast(s), chars)
    ELSE s

(***************************************************************************)
(* pandas: frames and csv files.  A frame is its column names, its index   *)
(* labels and its rows; a csv file is its lines, a line its cells.         *)
(***************************************************************************)
IndexText == <<"0", "1", "2", "3", "4", "5", "6", "7", "8", "9">>

RangeIndex(n) == [i \in 1..n |-> i - 1]

Frame(columns, index, rows) == [columns |-> columns, index |-> index, rows |-> rows]

Shape(frame) == <<Len(frame.rows), Len(frame.columns)>>

\* A missing value is written as an empty cell and read back as missing.
WriteCell(c) == IF c = "NaN" THEN "" ELSE c
ReadCell(c) == IF c = "" THEN "NaN" ELSE c

\* frame.to_csv(path, header=..., index=...): the lines written
to_csv(frame, header, index, Text(_)) ==
    (IF header
     THEN <<(IF index THEN <<"">> ELSE <<>>) \o frame.columns>>
     ELSE <<>>)
    \o [i \in DOMAIN frame.rows |->
          (IF index THEN <<IndexText[frame.index[i] + 1]>> ELSE <<>>)
          \o [j \in DOMAIN frame.rows[i] |-> Text(frame.rows[i][j])]]

\* pd.read_csv(path, header=...): header "infer" takes the first line as the
\* column names, header "None" takes every line as data.
read_csv(lines, header, Value(_)) ==
    IF lines = <<>>
    THEN [raised |-> "EmptyDataError", frame |-> Frame(<<>>, <<>>, <<>>)]
    ELSE LET data  == IF header = "infer" THEN Tail(lines) ELSE lines
             names == IF header = "infer"
                      THEN [j \in DOMAIN lines[1] |->
                              IF lines[1][j] = "" THEN "Unnamed: 0" ELSE lines[1][j]]
                      ELSE [j \in DOMAIN lines[1] |-> IndexText[j]]
         IN [raised |-> "none",
             frame |-> Frame(names, RangeIndex(Len(data)),
                             [i \in DOMAIN data |->
                                [j \in DOMAIN data[i] |-> Value(data[i][j])]])]

\* The positions of seq whose element satisfies Keep, in order.
RECURSIVE Positions(_, _, _)
Positions(seq, Keep(_), i) ==
    IF i > Len(seq) THEN <<>>
    ELSE (IF Keep(i) THEN <<i>> ELSE <<>>) \o Positions(seq, Keep, i + 1)

Take(frame, positions) ==
    Frame(frame.columns,
          [k \in DOMAIN positions |-> frame.index[positions[k]]],
          [k \in DOMAIN positions |-> frame.rows[positions[k]]])

\* frame.head(n), and read_csv(..., nrows=n)
head(frame, n) ==
    LET k == IF Len(frame.rows) < n THEN Len(frame.rows) ELSE n
    IN Frame(frame.columns, SubSeq(frame.index, 1, k), SubSeq(frame.rows, 1, k))

ColumnAt(frame, name) == CHOOSE j \in DOMAIN frame.columns : frame.columns[j] = name

\* pd.DataFrame(data=frame, columns=names)
SelectColumns(frame, names) ==
    Frame(names, frame.index,
          [i \in DOMAIN frame.rows |->
             [k \in DOMAIN names |-> frame.rows[i][ColumnAt(frame, names[k])]]])

dropna(frame) ==
    LET Keep(i) == \A j \in DOMAIN frame.rows[i] : frame.rows[i][j] # "NaN"
    IN Take(frame, Positions(frame.rows, Keep, 1))

drop_duplicates(frame) ==
    LET Keep(i) == \A k \in 1..(i - 1) : frame.rows[k] # frame.rows[i]
    IN Take(frame, Positions(frame.rows, Keep, 1))

(***************************************************************************)
(* preprocessing.py                                                        *)
(***************************************************************************)
\* The feature columns are represented by one of them.
features == <<"bill_length_mm">>
target == "sex"
columns == features \o <<target>>

\* --train-test-split, default 0.3, in tenths
DefaultSplitTenths == 3

\* The fitted column transformer, row by row: a stand-in for the scaled value.
Scaled(c) ==
    CASE c = "1" -> Decimal("float", TRUE, <<"1">>, <<"2">>)
      [] c = "2" -> Decimal("float", FALSE, <<"0">>, <<>>)
      [] OTHER   -> Decimal("float", FALSE, <<"1">>, <<"2", "5">>)

fit_transform(frame) ==
    Frame(<<"0">>, RangeIndex(Len(frame.rows)),
          [i \in DOMAIN frame.rows |->
             [j \in DOMAIN frame.rows[i] |-> Scaled(frame.rows[i][j])]])

Shuffles(n) == {p \in [1..n -> 1..n] : \A i, j \in 1..n : p[i] = p[j] => i = j}

\* Variant: the training part starts one position early.
train_test_split_overlap(n, permutation, tenths) ==
    LET n_test  == (tenths * n + 9) \div 10
        n_train == n - n_test
    IN [test  |-> SubSeq(permutation, 1, n_test),
        train |-> SubSeq(permutation, n_test, n_test + n_train)]

\* train_test_split(..., test_size=split, random_state=42): the positions of
\* the test part and of the training part.  n_test = ceil(test_size * n),
\* n_train = n - n_test; the permutation is the shuffle's.
train_test_split(n, permutation, tenths) ==
    LET n_test  == (tenths * n + 9) \div 10
        n_train == n - n_test
    IN [test  |-> SubSeq(permutation, 1, n_test),
        train |-> SubSeq(permutation, n_test + 1, n_test + n_train)]

processing_dir(name) == Abs(<<"opt", "ml", "processing", name>>)

Csv(lines) == [kind |-> "csv", lines |-> lines]

\* The cleaned frame of the script: selected columns, no missing value, no
\* duplicate.
Cleaned(raw) == drop_duplicates(dropna(SelectColumns(raw, columns)))

DropColumn(frame, name) ==
    LET keep == Positions(frame.columns,
                          LAMBDA j : frame.columns[j] # name, 1)
    IN Frame([k \in DOMAIN keep |-> frame.columns[keep[k]]], frame.index,
             [i \in DOMAIN frame.rows |->
                [k \in DOMAIN keep |-> frame.rows[i][keep[k]]]])

Column(frame, name) ==
    Frame(<<name>>, frame.index,
          [i \in DOMAIN frame.rows |-> <<frame.rows[i][ColumnAt(frame, name)]>>])

Same(c) == c

\* A numeric cell, as read_csv reads it.
Number(c) == float(c).value

\* The number of samples the script finds in the container's files.
SamplesIn(fs) ==
    LET input_data_path == os_path_join(processing_dir("input"), <<"penguins.csv">>)
    IN IF input_data_path \in DOMAIN fs /\ fs[input_data_path].lines # <<>>
       THEN Len(Cleaned(read_csv(fs[input_data_path].lines, "infer", ReadCell).frame).rows)
       ELSE 0

\* Variant: the four files are written with header=True; the header of the
\* features is the text of their column labels.
preprocessing_py_with_header(fs, permutation) ==
    LET input_data_path == os_path_join(processing_dir("input"), <<"penguins.csv">>)
    IN IF input_data_path \notin DOMAIN fs
       THEN [raised |-> "FileNotFoundError", written |-> NoFiles]
       ELSE
       LET read == read_csv(fs[input_data_path].lines, "infer", ReadCell)
           df   == Cleaned(read.frame)
           n    == Len(df.rows)
       IN IF read.raised # "none" \/ n = 0
          THEN [raised |-> "ValueError", written |-> NoFiles]
          ELSE
          LET X       == fit_transform(DropColumn(df, target))
              y       == Column(df, target)
              parts   == train_test_split(n, permutation, DefaultSplitTenths)
              X_train == Take(X, parts.train)
              X_test  == Take(X, parts.test)
              y_train == Take(y, parts.train)
              y_test  == Take(y, parts.test)
              train_features_output_path ==
                  os_path_join(processing_dir("train"), <<"train_features.csv">>)
              train_labels_output_path ==
                  os_path_join(processing_dir("train"), <<"train_labels.csv">>)
              test_features_output_path ==
                  os_path_join(processing_dir("test"), <<"test_features.csv">>)
              test_labels_output_path ==
                  os_path_join(processing_dir("test"), <<"test_labels.csv">>)
          IN [raised |-> "none",
              written |->
                (train_features_output_path :> Csv(<<[j \in DOMAIN X_train.columns |-> <<X_train.columns[j]>>]>>
                        \o to_csv(X_train, FALSE, FALSE, PyStr)))
                @@ (test_features_output_path :> Csv(<<[j \in DOMAIN X_test.columns |-> <<X_test.columns[j]>>]>>
                        \o to_csv(X_test, FALSE, FALSE, PyStr)))
                @@ (train_labels_output_path :> Csv(to_csv(y_train, TRUE, FALSE, Same)))
                @@ (test_labels_output_path :> Csv(to_csv(y_test, TRUE, FALSE, Same)))]

\* The script run on the container's files fs with the shuffle's permutation:
\* what it raised and the files it wrote.
preprocessing_py(fs, permutation) ==
    LET input_data_path == os_path_join(processing_dir("input"), <<"penguins.csv">>)
    IN IF input_data_path \notin DOMAIN fs
       THEN [raised |-> "FileNotFoundError", written |-> NoFiles]
       ELSE
       LET read == read_csv(fs[input_data_path].lines, "infer", ReadCell)
           df   == Cleaned(read.frame)
           n    == Len(df.rows)
       IN IF read.raised # "none" \/ n = 0
          THEN [raised |-> "ValueError", written |-> NoFiles]
          ELSE
          LET X       == fit_transform(DropColumn(df, target))
              y       == Column(df, target)
              parts   == train_test_split(n, permutation, DefaultSplitTenths)
              X_train == Take(X, parts.train)
              X_test  == Take(X, parts.test)
              y_train == Take(y, parts.train)
              y_test  == Take(y, parts.test)
              train_features_output_path ==
                  os_path_join(processing_dir("train"), <<"train_features.csv">>)
              train_labels_output_path ==
                  os_path_join(processing_dir("train"), <<"train_labels.csv">>)
              test_features_output_path ==
                  os_path_join(processing_dir("test"), <<"test_features.csv">>)
              test_labels_output_path ==
                  os_path_join(processing_dir("test"), <<"test_labels.csv">>)
          IN [raised |-> "none",
              written |->
                (train_features_output_path :> Csv(to_csv(X_train, FALSE, FALSE, PyStr)))
                @@ (test_features_output_path :> Csv(to_csv(X_test, FALSE, FALSE, PyStr)))
                @@ (train_labels_output_path :> Csv(to_csv(y_train, FALSE, FALSE, Same)))
                @@ (test_labels_output_path :> Csv(to_csv(y_test, FALSE, FALSE, Same)))]

(***************************************************************************)
(* train_and_deploy.py: the training routine and model_fn.                 *)
(***************************************************************************)
Classes(frame) == {frame.rows[i][1] : i \in DOMAIN frame.rows}

model_dir == Abs(<<"opt", "ml", "model">>)

\* The script run on the container's files: what it raised, the files it wrote.
train_and_deploy_py(fs) ==
    LET training_data_directory == Abs(<<"opt", "ml", "input", "data", "train">>)
        train_features_data ==
            os_path_join(training_data_directory, <<"train_features.csv">>)
        train_labels_data ==
            os_path_join(training_data_directory, <<"train_labels.csv">>)
    IN IF train_features_data \notin DOMAIN fs \/ train_labels_data \notin DOMAIN fs
       THEN [raised |-> "FileNotFoundError", written |-> NoFiles]
       ELSE
       LET X_train == read_csv(fs[train_features_data].lines, "None", Number)
           y_train == read_csv(fs[train_labels_data].lines, "None", Same)
       IN IF X_train.raised # "none" \/ y_train.raised # "none"
          THEN [raised |-> "EmptyDataError", written |-> NoFiles]
          ELSE IF \/ Len(X_train.frame.rows) # Len(y_train.frame.rows)
                  \/ Cardinality(Classes(y_train.frame)) < 2
          THEN [raised |-> "ValueError", written |-> NoFiles]
          ELSE
          LET model == [kind |-> "model",
                        n_features |-> Len(X_train.frame.columns),
                        classes |-> Classes(y_train.frame)]
              model_output_directory == os_path_join(model_dir, <<"model.joblib">>)
          IN [raised |-> "none", written |-> (model_output_directory :> model)]

NoModel == [kind |-> "model", n_features |-> 0, classes |-> {}]

\* Variant: the model is looked for under another file name.
model_fn_pkl(dir, fs) ==
    LET path == os_path_join(dir, <<"model.pkl">>)
    IN IF path \in DOMAIN fs
       THEN [raised |-> "none", model |-> fs[path]]
       ELSE [raised |-> "FileNotFoundError", model |-> NoModel]

\* model_fn(model_dir) on the files fs of the serving container
model_fn(dir, fs) ==
    LET path == os_path_join(dir, <<"model.joblib">>)
    IN IF path \in DOMAIN fs
       THEN [raised |-> "none", model |-> fs[path]]
       ELSE [raised |-> "FileNotFoundError", model |-> NoModel]

\* The service packs the files under /opt/ml/model into model.tar.gz; the
\* members are named relative to that directory.
Tar(fs, dir) ==
    LET under == {p \in DOMAIN fs : IsPrefix(dir \o <<"/">>, p)}
        name(p) == SubSeq(p, Len(dir) + 2, Len(p))
    IN [kind |-> "tar",
        members |-> [m \in {name(p) : p \in under} |->
                        fs[CHOOSE p \in under : name(p) = m]]]

\* tar.extractall(path=dir)
extractall(tar, dir) ==
    [p \in {os_path_join(dir, m) : m \in DOMAIN tar.members} |->
        tar.members[CHOOSE m \in DOMAIN tar.members : os_path_join(dir, m) = p]]

(***************************************************************************)
(* evaluate.py                                                             *)
(***************************************************************************)
Json(object) == [kind |-> "json", object |-> object]

\* classification_report(y_test, predictions, output_dict=True): an entry
\* for every label and for the averages.
classification_report(y_test, predictions) ==
    LET labels == Classes(y_test) \cup {predictions[i] : i \in DOMAIN predictions}
    IN [k \in labels \cup {"micro avg", "macro avg", "weighted avg"} |-> "scores"]

\* The number of test samples the script finds in the container's files.
TestSamplesIn(fs) ==
    LET test_features_data ==
            os_path_join(processing_dir("test"), <<"test_features.csv">>)
    IN IF test_features_data \in DOMAIN fs THEN Len(fs[test_features_data].lines) ELSE 0

\* The script run on the container's files with the model's predictions, one
\* for each test sample: what it raised and the files it wrote.  The working
\* directory is ".".
evaluate_py(fs, predictions) ==
    LET model_path == os_path_join(processing_dir("model"), <<"model.tar.gz">>)
        test_features_data ==
            os_path_join(processing_dir("test"), <<"test_features.csv">>)
        test_labels_data ==
            os_path_join(processing_dir("test"), <<"test_labels.csv">>)
    IN IF model_path \notin DOMAIN fs
       THEN [raised |-> "FileNotFoundError", written |-> NoFiles]
       ELSE
       LET here == extractall(fs[model_path], <<".">>)
       IN IF os_path_join(<<".">>, <<"model.joblib">>) \notin DOMAIN here
          THEN [raised |-> "FileNotFoundError", written |-> NoFiles]
          ELSE IF \/ test_features_data \notin DOMAIN fs
                  \/ test_labels_data \notin DOMAIN fs
          THEN [raised |-> "FileNotFoundError", written |-> NoFiles]
          ELSE
          LET model  == here[os_path_join(<<".">>, <<"model.joblib">>)]
              X_test == read_csv(fs[test_features_data].lines, "None", Number)
              y_test == read_csv(fs[test_labels_data].lines, "None", Same)
          IN IF X_test.raised # "none" \/ y_test.raised # "none"
             THEN [raised |-> "EmptyDataError", written |-> NoFiles]
             ELSE IF \/ Len(X_test.frame.columns) # model.n_features
                     \/ Len(X_test.frame.rows) # Len(y_test.frame.rows)
             THEN [raised |-> "ValueError", written |-> NoFiles]
             ELSE
             LET shown  == [i \in DOMAIN X_test.frame.rows |-> predictions[i]]
                 report == ("accuracy" :> "scores")
                           @@ classification_report(y_test.frame, shown)
                 eval_output_path ==
                     os_path_join(processing_dir("evaluation"), <<"evaluation.json">>)
             IN [raised |-> "none",
                 written |-> (eval_output_path :> Json(report))]

(***************************************************************************)
(* The SageMaker SDK objects of the notebook.                              *)
(***************************************************************************)
\* The names the service gives the jobs: base name and time stamp.
ProcessingJobNames == <<"preprocessing-t1", "preprocessing-t2">>
TrainingJobNames == <<"sagemaker-scikit-learn-t1">>

ProcessingInput(source, destination) ==
    [source |-> source, destination |-> destination]

\* destination <<>> stands for no destination given
ProcessingOutput(output_name, source, destination) ==
    [output_name |-> output_name, source |-> source, destination |-> destination]

\* Processor.run: an output without destination gets
\* s3://<default bucket>/<job name>/output/<output name>.
NormalizeOutputs(outputs, job_name) ==
    [i \in DOMAIN outputs |->
        IF outputs[i].destination = <<>>
        THEN [outputs[i] EXCEPT !.destination =
                S3Uri(default_bucket, <<job_name, "output", outputs[i].output_name>>)]
        ELSE outputs[i]]

ProcessingJob(code, inputs, outputs, k) ==
    [name |-> ProcessingJobNames[k], code |-> code, inputs |-> inputs,
     outputs |-> NormalizeOutputs(outputs, ProcessingJobNames[k]),
     status |-> "InProgress", reason |-> "none"]

\* ProcessingJob.describe()
describe(job) ==
    [ProcessingJobName |-> job.name,
     ProcessingJobStatus |-> job.status,
     FailureReason |-> job.reason,
     ProcessingOutputConfig |->
        [Outputs |-> [i \in DOMAIN job.outputs |->
                        [OutputName |-> job.outputs[i].output_name,
                         S3Output |-> [S3Uri |-> job.outputs[i].destination,
                                       LocalPath |-> job.outputs[i].source]]]]]

\* Variant: the first job of the processor is taken.
FirstJob(js) == js[1]

\* sklearn_processor.jobs[-1]
LatestJob(js) == js[Len(js)]

\* sklearn.output_path when none is given: s3://<default bucket>/
estimator_output_path == <<"s3:", "/", "/", default_bucket, "/">>

InProgress ==
    {<<"processing", i>> : i \in {j \in DOMAIN jobs : jobs[j].status = "InProgress"}}
    \cup {<<"training", i>> :
            i \in {j \in DOMAIN training_jobs : training_jobs[j].status = "InProgress"}}

Bind(name, value) ==
    [n \in (DOMAIN ns) \cup {name} |-> IF n = name THEN value ELSE ns[n]]

\* An exception in a cell stops the run.
Halt(exception) == pc' = "halted" /\ raised' = exception

Stages == <<"ingestion", "preprocessing", "training", "evaluation",
            "endpoint invocation", "REST call">>

Started(stage) == <<stage, "started">>
Completed(stage) == <<stage, "completed">>

(***************************************************************************)
(* The notebook, cell by cell.                                             *)
(***************************************************************************)
\* cell cdfd2a1b: write the raw data to the raw data bucket
WritePenguins ==
    /\ pc = "write_penguins"
    /\ LET file_path == os_path_join(raw_data_bucket, <<"penguins.csv">>)
       IN s3' = Put(s3, file_path, Csv(to_csv(penguins, TRUE, TRUE, WriteCell)))
    /\ log' = log \o <<Started("ingestion"), Completed("ingestion")>>
    /\ pc' = "writefile_preprocessing"
    /\ UNCHANGED <<raised, raw_data_bucket, processed_data_bucket, penguins, cwd,
                   ns, jobs, training_jobs>>
    /\ UNCHANGED svvars

Writefile(at, file, next) ==
    /\ pc = at
    /\ cwd' = cwd \cup {file}
    /\ pc' = next
    /\ UNCHANGED <<raised, raw_data_bucket, processed_data_bucket, penguins, s3,
                   ns, jobs, training_jobs, log>>
    /\ UNCHANGED svvars

\* cell 51623636
WritefilePreprocessing ==
    Writefile("writefile_preprocessing", "preprocessing.py", "run_preprocessing")

\* cell a090c081
WritefileTrainAndDeploy ==
    Writefile("writefile_train_and_deploy", "train_and_deploy.py", "fit")

\* cell 7e1bc0a3
WritefileEvaluate ==
    Writefile("writefile_evaluate", "evaluate.py", "run_evaluation")

docker_base_path == Abs(<<"opt", "ml", "processing">>) \o <<"/">>

\* Processor.run(code, inputs, outputs): the job is started and the call
\* waits for it.
Run(at, code, inputs, outputs, stage, wait) ==
    /\ pc = at
    /\ IF code \in cwd
       THEN /\ jobs' = Append(jobs, ProcessingJob(code, inputs, outputs, Len(jobs) + 1))
            /\ log' = Append(log, Started(stage))
            /\ pc' = wait
            /\ UNCHANGED raised
       ELSE /\ Halt("ValueError")
            /\ UNCHANGED <<jobs, log>>
    /\ UNCHANGED <<raw_data_bucket, processed_data_bucket, penguins, s3, cwd, ns,
                   training_jobs>>
    /\ UNCHANGED svvars

\* cell 39c78291: sklearn_processor.run(code="preprocessing.py", ...)
RunPreprocessing ==
    Run("run_preprocessing", "preprocessing.py",
        <<ProcessingInput(raw_data_bucket, os_path_join(docker_base_path, <<"input">>))>>,
        <<ProcessingOutput("train_data", os_path_join(docker_base_path, <<"train">>),
                           processed_data_bucket),
          ProcessingOutput("test_data", os_path_join(docker_base_path, <<"test">>),
                           processed_data_bucket)>>,
        "preprocessing", "wait_preprocessing")

\* The service runs a processing job: the inputs are staged, the script
\* runs, and when it ends well the outputs are uploaded.
Execute(i, fs, result, stage) ==
    /\ IF result.raised = "none"
       THEN /\ s3' = UploadAll(s3, Overlay(fs, result.written), jobs[i].outputs)
            /\ jobs' = [jobs EXCEPT ![i].status = "Completed"]
            /\ log' = Append(log, Completed(stage))
       ELSE /\ jobs' = [jobs EXCEPT ![i].status = "Failed", ![i].reason = result.raised]
            /\ UNCHANGED <<s3, log>>
    /\ UNCHANGED <<pc, raised, raw_data_bucket, processed_data_bucket, penguins,
                   cwd, ns, training_jobs>>
    /\ UNCHANGED svvars

PreprocessingJobRuns ==
    \E i \in DOMAIN jobs :
        /\ jobs[i].status = "InProgress"
        /\ jobs[i].code = "preprocessing.py"
        /\ LET fs == Stage(s3, jobs[i].inputs)
           IN \E permutation \in Shuffles(SamplesIn(fs)) :
                 Execute(i, fs, preprocessing_py(fs, permutation), "preprocessing")

EvaluationJobRuns ==
    \E i \in DOMAIN jobs :
        /\ jobs[i].status = "InProgress"
        /\ jobs[i].code = "evaluate.py"
        /\ LET fs == Stage(s3, jobs[i].inputs)
           IN \E predictions \in [1..TestSamplesIn(fs) -> Labels] :
                 Execute(i, fs, evaluate_py(fs, predictions), "evaluation")

\* run() returns when the job has ended, and raises when it has failed; the
\* cell then reads jobs[-1].describe().
Returned(at, name, next) ==
    /\ pc = at
    /\ LatestJob(jobs).status # "InProgress"
    /\ IF LatestJob(jobs).status = "Completed"
       THEN /\ ns' = Bind(name, describe(LatestJob(jobs)))
            /\ pc' = next
            /\ UNCHANGED raised
       ELSE /\ Halt("UnexpectedStatusException")
            /\ UNCHANGED ns
    /\ UNCHANGED <<raw_data_bucket, processed_data_bucket, penguins, s3, cwd, jobs,
                   training_jobs, log>>
    /\ UNCHANGED svvars

\* cell 39c78291, after run(): preprocessing_job_description
PreprocessingReturned ==
    Returned("wait_preprocessing", "preprocessing_job_description", "inspect_training_data")

\* cell 9325ee09: read the first rows of the training features
InspectTrainingData ==
    /\ pc = "inspect_training_data"
    /\ LET path == processed_data_bucket \o <<"train_features.csv">>
       IN IF path \in DOMAIN s3 /\ s3[path].lines # <<>>
          THEN /\ ns' = Bind("training_features",
                             head(read_csv(s3[path].lines, "None", Number).frame, 10))
               /\ pc' = "writefile_train_and_deploy"
               /\ UNCHANGED raised
          ELSE /\ Halt(IF path \in DOMAIN s3 THEN "EmptyDataError"
                       ELSE "FileNotFoundError")
               /\ UNCHANGED ns
    /\ UNCHANGED <<raw_data_bucket, processed_data_bucket, penguins, s3, cwd, jobs,
                   training_jobs, log>>
    /\ UNCHANGED svvars

\* Variant: fit() does not wait for the training job.
FitAndGoOn ==
    /\ pc = "fit"
    /\ training_jobs' = Append(training_jobs,
            [name |-> TrainingJobNames[Len(training_jobs) + 1],
             entry_point |-> "train_and_deploy.py",
             inputs |-> <<ProcessingInput(processed_data_bucket,
                                          Abs(<<"opt", "ml", "input", "data", "train">>))>>,
             status |-> "InProgress", reason |-> "none"])
    /\ log' = Append(log, Started("training"))
    /\ pc' = "model_data_s3_uri"
    /\ UNCHANGED <<raised, raw_data_bucket, processed_data_bucket, penguins, s3, cwd,
                   ns, jobs>>
    /\ UNCHANGED svvars

\* cell 53f5607a: sklearn.fit({"train": processed_data_bucket}); the channel
\* is staged at /opt/ml/input/data/train and the call waits for the job.
Fit ==
    /\ pc = "fit"
    /\ IF "train_and_deploy.py" \in cwd
       THEN /\ training_jobs' = Append(training_jobs,
                    [name |-> TrainingJobNames[Len(training_jobs) + 1],
                     entry_point |-> "train_and_deploy.py",
                     inputs |-> <<ProcessingInput(processed_data_bucket,
                                    Abs(<<"opt", "ml", "input", "data", "train">>))>>,
                     status |-> "InProgress", reason |-> "none"])
            /\ log' = Append(log, Started("training"))
            /\ pc' = "wait_fit"
            /\ UNCHANGED raised
       ELSE /\ Halt("ValueError")
            /\ UNCHANGED <<training_jobs, log>>
    /\ UNCHANGED <<raw_data_bucket, processed_data_bucket, penguins, s3, cwd, ns, jobs>>
    /\ UNCHANGED svvars

\* Where the service stores the model of a training job.
ModelArtifact(job_name) == S3Uri(default_bucket, <<job_name, "output", "model.tar.gz">>)

\* The service runs the training job: the channel is staged, the script
\* runs, and when it ends well /opt/ml/model is packed and stored.
TrainingJobRuns ==
    \E i \in DOMAIN training_jobs :
        /\ training_jobs[i].status = "InProgress"
        /\ LET fs     == Stage(s3, training_jobs[i].inputs)
               result == train_and_deploy_py(fs)
           IN IF result.raised = "none"
              THEN /\ s3' = Put(s3, ModelArtifact(training_jobs[i].name),
                                Tar(Overlay(fs, result.written), model_dir))
                   /\ training_jobs' = [training_jobs EXCEPT ![i].status = "Completed"]
                   /\ log' = Append(log, Completed("training"))
              ELSE /\ training_jobs' = [training_jobs EXCEPT ![i].status = "Failed",
                                                                ![i].reason = result.raised]
                   /\ UNCHANGED <<s3, log>>
        /\ UNCHANGED <<pc, raised, raw_data_bucket, processed_data_bucket, penguins,
                       cwd, ns, jobs>>
        /\ UNCHANGED svvars

latest_training_job == training_jobs[Len(training_jobs)]

\* cell 53f5607a, after the wait: fit() returns, or raises when the job failed
FitReturned ==
    /\ pc = "wait_fit"
    /\ latest_training_job.status # "InProgress"
    /\ IF latest_training_job.status = "Completed"
       THEN pc' = "model_data_s3_uri" /\ UNCHANGED raised
       ELSE Halt("UnexpectedStatusException")
    /\ UNCHANGED <<raw_data_bucket, processed_data_bucket, penguins, s3, cwd, ns, jobs,
                   training_jobs, log>>
    /\ UNCHANGED svvars

\* Variant: the job's directory is left out of the URI.
model_data_s3_uri_flat ==
    estimator_output_path \o <<"output", "/", "model.tar.gz">>

\* cell c7db7b21: sklearn.output_path + sklearn.latest_training_job.name
\*                + "/output/model.tar.gz"
model_data_s3_uri ==
    estimator_output_path \o <<latest_training_job.name>>
        \o <<"/", "output", "/", "model.tar.gz">>

ModelDataS3Uri ==
    /\ pc = "model_data_s3_uri"
    /\ ns' = Bind("model_data_s3_uri", model_data_s3_uri)
    /\ pc' = "writefile_evaluate"
    /\ UNCHANGED <<raised, raw_data_bucket, processed_data_bucket, penguins, s3, cwd,
                   jobs, training_jobs, log>>
    /\ UNCHANGED svvars

\* cell ab77371b: sklearn_processor.run(code="evaluate.py", ...)
RunEvaluation ==
    Run("run_evaluation", "evaluate.py",
        <<ProcessingInput(ns["model_data_s3_uri"], processing_dir("model")),
          ProcessingInput(processed_data_bucket, processing_dir("test"))>>,
        <<ProcessingOutput("evaluation", processing_dir("evaluation"), <<>>)>>,
        "evaluation", "wait_evaluation")

\* cell ab77371b, after run(): evaluation_job_description
EvaluationReturned ==
    Returned("wait_evaluation", "evaluation_job_description", "inspect_evaluation")

RECURSIVE split2(_)
\* s.split("//") of a URI
split2(s) ==
    LET at == {i \in 1..(Len(s) - 1) : s[i] = "/" /\ s[i + 1] = "/"}
    IN IF at = {} THEN <<s>>
       ELSE LET i == CHOOSE k \in at : \A j \in at : k <= j
            IN <<SubSeq(s, 1, i - 1)>> \o split2(SubSeq(s, i + 2, Len(s)))

\* s.split("/", 1)
split_once(s) ==
    LET at == Indices(s, "/")
    IN IF at = {} THEN <<s>>
       ELSE LET i == CHOOSE k \in at : \A j \in at : k <= j
            IN <<SubSeq(s, 1, i - 1), SubSeq(s, i + 1, Len(s))>>

\* The object that get_object(Bucket, Key) names.
Object(bucket, key) == <<"s3:", "/", "/">> \o bucket \o <<"/">> \o key

\* cell 4d0aa041: the object the cell asks for
InspectedObject(description) ==
    LET s3_path == description.ProcessingOutputConfig.Outputs[1].S3Output.S3Uri
        parts   == split_once(split2(s3_path)[2])
        bucket  == parts[1]
        key     == parts[2]
    IN Object(bucket, key \o <<"/", "evaluation.json">>)

InspectEvaluation ==
    /\ pc = "inspect_evaluation"
    /\ LET object == InspectedObject(ns["evaluation_job_description"])
       IN IF object \in DOMAIN s3
          THEN /\ ns' = Bind("result", s3[object])
               /\ pc' = "test_endpoint"
               /\ UNCHANGED raised
          ELSE /\ Halt("NoSuchKey")
               /\ UNCHANGED ns
    /\ UNCHANGED <<raw_data_bucket, processed_data_bucket, penguins, s3, cwd, jobs,
                   training_jobs, log>>
    /\ UNCHANGED svvars

RECURSIVE FormatRequestBody(_, _)
\* cell 114fa67b: for sample in training_data:
\*                    request_body += ",".join([str(n) for n in sample]) + "|"
FormatRequestBody(request_body, training_data) ==
    IF training_data = <<>> THEN request_body
    ELSE FormatRequestBody(
            request_body
                \o join(<<",">>, [j \in DOMAIN training_data[1] |->
                                    PyStr(training_data[1][j])])
                \o <<"|">>,
            Tail(training_data))

\* cell 114fa67b: the request body is built from two training rows and the
\* endpoint of `predictor` is called.  No cell binds `predictor`.
TestEndpoint ==
    /\ pc = "test_endpoint"
    /\ LET training_data == head(ns["training_features"], 2).rows
           request_body  == DropLast(FormatRequestBody(<<>>, training_data))
       IN IF "predictor" \in DOMAIN ns
          THEN /\ ns' = Bind("request_body", request_body)
               /\ request' = [Body |-> request_body, ContentType |-> "text/csv",
                              caller |-> "notebook"]
               /\ log' = Append(log, Started("endpoint invocation"))
               /\ pc' = "wait_endpoint"
               /\ UNCHANGED raised
          ELSE /\ ns' = Bind("request_body", request_body)
               /\ Halt("NameError")
               /\ UNCHANGED <<request, log>>
    /\ UNCHANGED <<raw_data_bucket, processed_data_bucket, penguins, s3, cwd, jobs,
                   training_jobs>>
    /\ UNCHANGED <<spc, event, response, label>>

(***************************************************************************)
(* The serving path: a caller, the endpoint's container, lambda_handler.   *)
(***************************************************************************)
ContentTypes == {"text/csv", "application/json", "text/csv; charset=utf-8", "TEXT/CSV"}

NoInput == [raised |-> "none", returned |-> FALSE, value |-> NoArray]
NoRequest == [Body |-> <<>>, ContentType |-> "", caller |-> "none"]
NoResponse == [raised |-> "none", input |-> NoInput, prediction |-> <<>>, Body |-> <<>>]
NoLabel == [raised |-> "none", value |-> <<>>]

\* serving_lambda.py, lambda_handler up to the call of the endpoint
LambdaHandlerInvokes ==
    /\ spc = "request"
    /\ LET data    == event
           payload == json_loads(data["data"])
           body    == lambda_body(payload)
       IN request' = [Body |-> body, ContentType |-> "text/csv", caller |-> "lambda"]
    /\ spc' = "invoked"
    /\ UNCHANGED <<event, response, label>>
    /\ UNCHANGED nbvars

\* A caller of the endpoint other than the lambda function, as the test cell
\* 114fa67b is: the same body, and a content type of the caller's choice.
ClientInvokes ==
    /\ spc = "request"
    /\ \E content_type \in ContentTypes :
          request' = [Body |-> DropLast(FormatRequestBody(<<>>, json_loads(event["data"]))),
                      ContentType |-> content_type, caller |-> "client"]
    /\ spc' = "invoked"
    /\ UNCHANGED <<event, response, label>>
    /\ UNCHANGED nbvars

\* The endpoint's container answers a request: input_fn, predict_fn,
\* output_fn.  An exception in one of them is an error response.
EndpointServes ==
    /\ spc = "invoked"
    /\ LET input == input_fn(request.Body, request.ContentType)
       IN IF input.raised # "none"
          THEN response' = [raised |-> input.raised, input |-> input,
                            prediction |-> <<>>, Body |-> <<>>]
          ELSE \E out \in predict_fn_outcomes(input.value) :
                  response' = [raised |-> out.raised, input |-> input,
                               prediction |-> out.prediction,
                               Body |-> IF out.raised = "none"
                                        THEN output_fn(out.prediction, "text/csv")
                                        ELSE <<>>]
    /\ spc' = "served"
    /\ UNCHANGED <<event, request, label>>
    /\ UNCHANGED nbvars

\* lambda_handler after the call: invoke_endpoint raises on an error
\* response; otherwise the label is the stripped body.
LambdaHandlerReturns ==
    /\ spc = "served"
    /\ request.caller = "lambda"
    /\ label' = IF response.raised # "none"
                THEN [raised |-> "ModelError", value |-> <<>>]
                ELSE [raised |-> "none",
                      value |-> strip(strip(response.Body, {"[", "]"}), {"'"})]
    /\ spc' = "returned"
    /\ UNCHANGED <<event, request, response>>
    /\ UNCHANGED nbvars

(***************************************************************************)
(* The inputs.                                                             *)
(***************************************************************************)
RawColumns == <<"bill_length_mm", "sex", "year">>

RawRows == {<<"1", "male", "2007">>, <<"2", "female", "2007">>,
            <<"3", "male", "2007">>, <<"2", "male", "2008">>,
            <<"1", "NaN", "2007">>}

Datasets ==
    {Frame(RawColumns, RangeIndex(Len(rows)), rows) :
        rows \in UNION {[1..n -> RawRows] : n \in 1..MaxRows}}

\* PREPROCESSING_OUTPUT_PATH is a prefix with or without a closing "/".
Prefixes(bucket, name) == {S3Uri(bucket, <<name>>), S3Uri(bucket, <<name>>) \o <<"/">>}

\* Number literals of a JSON text: an int, and a negative float with a
\* trailing zero.
NumberLiterals == {<<"1">>, <<"-", "2", ".", "5", "0">>}

\* A whole number that 53 bits do not hold: 2^53 + 1.
WideLiterals == {<<"9", "0", "0", "7", "1", "9", "9", "2",
                   "5", "4", "7", "4", "0", "9", "9", "3">>}

\* Lists of rows of number literals, and one row of one wide literal.
Payloads ==
    UNION {[1..n -> UNION {[1..k -> NumberLiterals] : k \in 0..MaxRowLen}] :
                n \in 0..MaxPayloadRows}
    \cup {<<<<w>>>> : w \in WideLiterals}

NotebookStart(raw, processed, data) ==
    /\ raised = "none"
    /\ raw_data_bucket = raw
    /\ processed_data_bucket = processed
    /\ penguins = data
    /\ s3 = NoFiles
    /\ cwd = {}
    /\ ns = NoFiles
    /\ jobs = <<>>
    /\ training_jobs = <<>>
    /\ log = <<>>

Init ==
    /\ pc = "write_penguins"
    /\ \E processed \in Prefixes("processed-data", "penguins") :
       \E data \in Datasets :
          NotebookStart(S3Uri("raw-data", <<"penguins">>), processed, data)
    /\ spc = "off"
    /\ event = [data |-> <<>>]
    /\ request = NoRequest
    /\ response = NoResponse
    /\ label = NoLabel

Next ==
    \/ WritePenguins
    \/ WritefilePreprocessing
    \/ RunPreprocessing
    \/ PreprocessingJobRuns
    \/ PreprocessingReturned
    \/ InspectTrainingData
    \/ WritefileTrainAndDeploy
    \/ Fit
    \/ TrainingJobRuns
    \/ FitReturned
    \/ ModelDataS3Uri
    \/ WritefileEvaluate
    \/ RunEvaluation
    \/ EvaluationJobRuns
    \/ EvaluationReturned
    \/ InspectEvaluation
    \/ TestEndpoint

Spec == Init /\ [][Next]_vars

\* The serving path with the endpoint in service: the event is any list of
\* rows of number literals, as JSON text.
InitServing ==
    /\ pc = "serving"
    /\ NotebookStart(S3Uri("raw-data", <<"penguins">>),
                     S3Uri("processed-data", <<"penguins">>),
                     Frame(RawColumns, <<>>, <<>>))
    /\ spc = "request"
    /\ \E payload \in Payloads : event = [data |-> JsonText(payload)]
    /\ request = NoRequest
    /\ response = NoResponse
    /\ label = NoLabel

NextServing ==
    \/ LambdaHandlerInvokes
    \/ ClientInvokes
    \/ EndpointServes
    \/ LambdaHandlerReturns

SpecServing == InitServing /\ [][NextServing]_vars

(***************************************************************************)
(* Properties of the notebook run (Spec).                                  *)
(***************************************************************************)
JobsOf(code) == {i \in DOMAIN jobs : jobs[i].code = code}

\* C1: when the run reaches the endpoint test cell, which reads
\* predictor.endpoint and calls invoke_endpoint, the name `predictor` is
\* bound (deploy() has been called on the estimator after the evaluation).
C1_PredictorBoundAtEndpointTest ==
    pc = "test_endpoint" => "predictor" \in DOMAIN ns

ExpectedLog ==
    <<Started("ingestion"), Completed("ingestion"),
      Started("preprocessing"), Completed("preprocessing"),
      Started("training"), Completed("training"),
      Started("evaluation"), Completed("evaluation"),
      Started("endpoint invocation"), Completed("endpoint invocation"),
      Started("REST call"), Completed("REST call")>>

Processed(name) == os_path_join(processed_data_bucket, <<name>>)

LinesOf(name) == s3[Processed(name)].lines

\* The cleaned rows as the files hold them: the text of the transformed
\* features, and the label.
CleanedPairs ==
    LET df == Cleaned(penguins)
        X  == fit_transform(DropColumn(df, target))
        y  == Column(df, target)
    IN {<<[j \in DOMAIN X.rows[k] |-> PyStr(X.rows[k][j])], y.rows[k]>> :
            k \in DOMAIN df.rows}

PairsOf(feature_lines, label_lines) ==
    {<<feature_lines[i], label_lines[i]>> : i \in DOMAIN feature_lines}

\* C6: once the preprocessing job has completed, the training files and the
\* test files partition the cleaned rows: on each side the feature file and
\* the label file have the same number of rows, row i of the one belonging
\* to row i of the other, and every cleaned row is on exactly one side, once.
C6_SplitPartitionsCleanedRows ==
    (\E i \in JobsOf("preprocessing.py") : jobs[i].status = "Completed") =>
        /\ \A name \in {"train_features.csv", "train_labels.csv",
                        "test_features.csv", "test_labels.csv"} :
              Processed(name) \in DOMAIN s3
        /\ Len(LinesOf("train_features.csv")) = Len(LinesOf("train_labels.csv"))
        /\ Len(LinesOf("test_features.csv")) = Len(LinesOf("test_labels.csv"))
        /\ Len(LinesOf("train_features.csv")) + Len(LinesOf("test_features.csv"))
              = Cardinality(CleanedPairs)
        /\ Cardinality(CleanedPairs) = Len(Cleaned(penguins).rows)
        /\ PairsOf(LinesOf("train_features.csv"), LinesOf("train_labels.csv"))
              \cup PairsOf(LinesOf("test_features.csv"), LinesOf("test_labels.csv"))
              = CleanedPairs

\* C6 witness: the job has completed on four cleaned rows, two of them in the
\* training files and two in the test files.
C6_Witness ==
    /\ \E i \in JobsOf("preprocessing.py") : jobs[i].status = "Completed"
    /\ Len(Cleaned(penguins).rows) = 4
    /\ Len(LinesOf("train_features.csv")) = 2
    /\ Len(LinesOf("test_labels.csv")) = 2

EvaluationJson(i) ==
    s3[os_path_join(jobs[i].outputs[1].destination, <<"evaluation.json">>)].object

\* C7: the evaluation.json that a completed evaluation job has stored holds
\* an entry for the classification report, for the roc_auc score and for the
\* accuracy.
C7_EvaluationJsonHasAllMetrics ==
    \A i \in JobsOf("evaluate.py") :
        jobs[i].status = "Completed" =>
            /\ {"micro avg", "macro avg", "weighted avg"} \subseteq DOMAIN EvaluationJson(i)
            /\ "accuracy" \in DOMAIN EvaluationJson(i)
            /\ \E k \in DOMAIN EvaluationJson(i) : k \in {"roc_auc", "roc_auc_score"}

\* C8: the model artifact of a completed training job holds exactly one
\* file, model.joblib, and each consumer finds the file it loads: model_fn
\* with the artifact unpacked in /opt/ml/model, evaluate.py with it unpacked
\* in its working directory; an evaluation job never ends for want of a file.
C8_ModelFileNameAgrees ==
    /\ \A i \in DOMAIN training_jobs :
          training_jobs[i].status = "Completed" =>
              /\ ModelArtifact(training_jobs[i].name) \in DOMAIN s3
              /\ LET tar == s3[ModelArtifact(training_jobs[i].name)]
                 IN /\ DOMAIN tar.members = {<<"model.joblib">>}
                    /\ model_fn(model_dir, extractall(tar, model_dir)).raised = "none"
                    /\ model_fn(model_dir, extractall(tar, model_dir)).model
                          = tar.members[<<"model.joblib">>]
    /\ \A i \in JobsOf("evaluate.py") : jobs[i].reason # "FileNotFoundError"

\* C8 witness: the evaluation job has loaded the model of the training job.
C8_Witness ==
    /\ \E i \in DOMAIN training_jobs : training_jobs[i].status = "Completed"
    /\ \E i \in JobsOf("evaluate.py") : jobs[i].status = "Completed"

InputPath(dir, name) == os_path_join(dir, <<name>>)

\* C9: a job that is started finds every file its script reads at the path
\* it reads it from: preprocessing penguins.csv under its input, training
\* the two training files under the train channel, evaluation the two test
\* files under its test input and model.tar.gz under its model input; so no
\* job fails for want of a file.
C9_WiringConsistent ==
    /\ \A i \in JobsOf("preprocessing.py") :
          /\ jobs[i].reason # "FileNotFoundError"
          /\ jobs[i].status = "InProgress" =>
                InputPath(processing_dir("input"), "penguins.csv")
                    \in DOMAIN Stage(s3, jobs[i].inputs)
    /\ \A i \in DOMAIN training_jobs :
          /\ training_jobs[i].reason # "FileNotFoundError"
          /\ training_jobs[i].status = "InProgress" =>
                {InputPath(Abs(<<"opt", "ml", "input", "data", "train">>), f) :
                    f \in {"train_features.csv", "train_labels.csv"}}
                    \subseteq DOMAIN Stage(s3, training_jobs[i].inputs)
    /\ \A i \in JobsOf("evaluate.py") :
          /\ jobs[i].reason # "FileNotFoundError"
          /\ jobs[i].status = "InProgress" =>
                ({InputPath(processing_dir("test"), f) :
                    f \in {"test_features.csv", "test_labels.csv"}}
                 \cup {InputPath(processing_dir("model"), "model.tar.gz")})
                    \subseteq DOMAIN Stage(s3, jobs[i].inputs)

\* C9 witness: the evaluation job is in progress.
C9_Witness == \E i \in JobsOf("evaluate.py") : jobs[i].status = "InProgress"

\* C10: preprocessing_job_description describes the job that runs
\* preprocessing.py and evaluation_job_description the job that runs
\* evaluate.py; the first output of the latter is the output "evaluation",
\* and the object the inspection cell reads is evaluation.json under that
\* output's S3 URI, which the evaluation job has stored.
C10_DescriptionsDenoteTheirJobs ==
    /\ "preprocessing_job_description" \in DOMAIN ns =>
          \E i \in JobsOf("preprocessing.py") :
              ns["preprocessing_job_description"] = describe(jobs[i])
    /\ "evaluation_job_description" \in DOMAIN ns =>
          \E i \in JobsOf("evaluate.py") :
              /\ ns["evaluation_job_description"] = describe(jobs[i])
              /\ ns["evaluation_job_description"]
                    .ProcessingOutputConfig.Outputs[1].OutputName = "evaluation"
              /\ InspectedObject(ns["evaluation_job_description"])
                    = os_path_join(jobs[i].outputs[1].destination, <<"evaluation.json">>)
              /\ InspectedObject(ns["evaluation_job_description"]) \in DOMAIN s3
    /\ "result" \in DOMAIN ns => ns["result"].kind = "json"

\* C10 witness: the inspection cell has read the evaluation result.
C10_Witness == "result" \in DOMAIN ns /\ Len(jobs) = 2

\* The shape of the frames that preprocessing.py generates from the cleaned
\* data: the features and the labels of the training part and of the test
\* part.
GeneratedShape(name) ==
    LET df    == Cleaned(penguins)
        n     == Len(df.rows)
        parts == train_test_split(n, [k \in 1..n |-> k], DefaultSplitTenths)
        rows  == IF name \in {"train_features.csv", "train_labels.csv"}
                 THEN Len(parts.train) ELSE Len(parts.test)
        cols  == IF name \in {"train_features.csv", "test_features.csv"}
                 THEN Len(fit_transform(DropColumn(df, target)).columns)
                 ELSE 1
    IN <<rows, cols>>

\* What pd.read_csv(path, header=None) gives a script in a container with
\* the files fs.
Ingested(fs, dir, name) == read_csv(fs[os_path_join(dir, <<name>>)].lines, "None", Same)

IngestedAsGenerated(fs, dir, name) ==
    /\ os_path_join(dir, <<name>>) \in DOMAIN fs
    /\ Ingested(fs, dir, name).raised = "none"
    /\ Shape(Ingested(fs, dir, name).frame) = GeneratedShape(name)

TrainChannel == Abs(<<"opt", "ml", "input", "data", "train">>)

\* C11: the frames that train_and_deploy.py and evaluate.py read with
\* read_csv(header=None) from the files that preprocessing.py wrote with
\* to_csv(header=False, index=False) have as many rows and as many columns
\* as the frames written, for the features and for the labels: no row is
\* taken as a header and no index column is added.  The model that training
\* stores is fitted on as many feature columns as were generated.
C11_CsvRoundTripKeepsShape ==
    /\ \A i \in DOMAIN training_jobs :
          /\ training_jobs[i].status = "InProgress" =>
                LET fs == Stage(s3, training_jobs[i].inputs)
                IN /\ IngestedAsGenerated(fs, TrainChannel, "train_features.csv")
                   /\ IngestedAsGenerated(fs, TrainChannel, "train_labels.csv")
          /\ training_jobs[i].status = "Completed" =>
                s3[ModelArtifact(training_jobs[i].name)].members[<<"model.joblib">>].n_features
                    = GeneratedShape("train_features.csv")[2]
    /\ \A i \in JobsOf("evaluate.py") :
          jobs[i].status = "InProgress" =>
             LET fs == Stage(s3, jobs[i].inputs)
             IN /\ IngestedAsGenerated(fs, processing_dir("test"), "test_features.csv")
                /\ IngestedAsGenerated(fs, processing_dir("test"), "test_labels.csv")

\* C11 witness: the evaluation job is about to read two test rows, after a
\* training job that read two training rows has completed.
C11_Witness ==
    /\ \E i \in JobsOf("evaluate.py") : jobs[i].status = "InProgress"
    /\ \E i \in DOMAIN training_jobs : training_jobs[i].status = "Completed"
    /\ GeneratedShape("train_features.csv") = <<2, 1>>
    /\ GeneratedShape("test_labels.csv") = <<2, 1>>

\* The path that the inspection cell 9325ee09 builds by concatenation.
InspectionPath == processed_data_bucket \o <<"train_features.csv">>

\* C12: once the preprocessing job has completed, the path that the
\* inspection cell builds names the train_features.csv object that the job
\* stored under its output destination, with and without a closing "/" on
\* PREPROCESSING_OUTPUT_PATH, so the cell finds the object.
C12_InspectionReadsWrittenObject ==
    \A i \in JobsOf("preprocessing.py") :
        jobs[i].status = "Completed" =>
            /\ InspectionPath
                 = os_path_join(jobs[i].outputs[1].destination, <<"train_features.csv">>)
            /\ InspectionPath \in DOMAIN s3
            /\ ~(pc = "halted" /\ raised = "FileNotFoundError")

(***************************************************************************)
(* Properties of the serving path (SpecServing).                           *)
(***************************************************************************)
\* The rows that the event's data field encodes.
EventRows == json_loads(event["data"])

RowText(row) == join(<<",">>, [j \in DOMAIN row |-> PyStr(row[j])])

Separators(body) == Cardinality(Indices(body, "|"))

Sent == spc \in {"invoked", "served", "returned"} /\ request.caller = "lambda"

\* The body is the rows in order, each its values joined by ",", with
\* exactly one "|" between two rows, sent as text/csv.
RowsInOrder ==
    /\ request.ContentType = "text/csv"
    /\ Len(split(request.Body, "|")) = Len(EventRows)
    /\ \A i \in DOMAIN EventRows : split(request.Body, "|")[i] = RowText(EventRows[i])
    /\ Separators(request.Body) = Len(EventRows) - 1

LeadingSeparator == request.Body # <<>> /\ request.Body[1] = "|"

TrailingSeparator == request.Body # <<>> /\ request.Body[Len(request.Body)] = "|"

\* C3 as stated: for a non-empty list of rows the body that lambda_handler
\* sends is the rows in payload order, each its values joined by ",", rows
\* separated by exactly one "|", with no leading or trailing "|", as text/csv.
C3_BodyAsStated ==
    (Sent /\ EventRows # <<>>) =>
        RowsInOrder /\ ~LeadingSeparator /\ ~TrailingSeparator

\* C3 amended: the same, but the body starts with "|" exactly when the first
\* of several rows is empty and ends with "|" exactly when the last of
\* several rows is empty; with non-empty rows it has neither.
C3_BodyAmended ==
    (Sent /\ EventRows # <<>>) =>
        /\ RowsInOrder
        /\ LeadingSeparator <=> (Len(EventRows) > 1 /\ EventRows[1] = <<>>)
        /\ TrailingSeparator <=> (Len(EventRows) > 1 /\ EventRows[Len(EventRows)] = <<>>)

\* C3 witness: lambda_handler has sent two non-empty rows.
C3_Witness ==
    /\ Sent
    /\ Len(EventRows) = 2
    /\ \A i \in DOMAIN EventRows : EventRows[i] # <<>>
    /\ Separators(request.Body) = 1

Answered == spc \in {"served", "returned"}

\* a == b for two numbers
SameNumber(a, b) ==
    /\ a.int = b.int
    /\ a.frac = b.frac
    /\ (a.neg = b.neg \/ (a.int = <<"0">> /\ a.frac = <<>>))

\* lambda_handler has sent a non-empty list of non-empty rows and the
\* endpoint has answered.
RowsAnswered ==
    /\ Answered /\ request.caller = "lambda"
    /\ EventRows # <<>>
    /\ \A i \in DOMAIN EventRows : EventRows[i] # <<>>

\* input_fn returned an array with the rows of the event: as many rows, as
\* many values in each row, the same values in the same order.
RoundTrip ==
    /\ response.input.returned
    /\ Len(response.input.value.rows) = Len(EventRows)
    /\ \A i \in DOMAIN EventRows :
          /\ Len(response.input.value.rows[i]) = Len(EventRows[i])
          /\ \A j \in DOMAIN EventRows[i] :
                SameNumber(response.input.value.rows[i][j], EventRows[i][j])

\* A number that a float holds exactly: a float, or an int of magnitude at
\* most 2^53.
Exact(x) == x.t = "float" \/ ~Less(TwoPow53, x.int)

\* C4 as stated: for a non-empty list of non-empty rows of numbers, input_fn
\* applied to the body that lambda_handler built returns an array with as
\* many rows, as many values in each row, and the same values in the same
\* order.
C4_WireFormatRoundTrip == RowsAnswered => RoundTrip

\* C4 amended: the same for rows of numbers that a float holds exactly,
\* which are the floats and the ints of magnitude at most 2^53.
C4_RoundTripOfExactNumbers ==
    (RowsAnswered /\ \A i \in DOMAIN EventRows :
                        \A j \in DOMAIN EventRows[i] : Exact(EventRows[i][j]))
        => RoundTrip

\* C4 witness: two rows of different numbers have gone through input_fn.
C4_Witness ==
    /\ Answered /\ request.caller = "lambda"
    /\ Len(EventRows) = 2
    /\ \A i \in DOMAIN EventRows : Len(EventRows[i]) = 2
    /\ EventRows[1] # EventRows[2]
    /\ response.input.returned

\* C5: for every content type other than exactly text/csv, whatever the
\* body, input_fn raises ValueError and returns no samples.
C5_OnlyTextCsv ==
    (Answered /\ request.ContentType # "text/csv") =>
        /\ response.input.raised = "ValueError"
        /\ ~response.input.returned
        /\ response.input.value.rows = <<>>

\* C5 witness: a well-formed csv body was sent with a content type that
\* differs from text/csv only in its parameter.
C5_Witness ==
    /\ Answered
    /\ request.ContentType = "text/csv; charset=utf-8"
    /\ request.Body # <<>>
    /\ input_fn(request.Body, "text/csv").returned

\* lambda_handler has returned the label for a non-empty payload.
LabelReturned ==
    /\ spc = "returned"
    /\ label.raised = "none"
    /\ EventRows # <<>>

\* C13: for every non-empty payload, of one row or of several, the text that
\* lambda_handler returns holds no bracket and no quote.
C13_LabelIsPlainText ==
    LabelReturned =>
        \A k \in DOMAIN label.value : label.value[k] \notin {"[", "]", "'"}

====
